---- MODULE Spec2Model ----
(***************************************************************************)
(* Model of src/src/pysim5g/generate_hex.py: the hexagon tessellation      *)
(* (calculate_polygons), the wrapping of the polygons into cells           *)
(* (generate_cell_areas) and the nearest-neighbour selection               *)
(* (find_closest_cell_areas).                                              *)
(*                                                                         *)
(* Arithmetic.  The program computes in floating point with the factors    *)
(* tan(pi/6) = 1/sqrt(3) and cos(30 deg) = sqrt(3)/2.  The model computes  *)
(* the same expressions exactly: a number is a record [n, t] standing for  *)
(* n + t * tan(pi/6), with n and t integers.  Inputs (coordinates, radius) *)
(* are whole numbers [n |-> k, t |-> 0].                                   *)
(*                                                                         *)
(* Rounding.  Two computed floats whose exact values differ compare as the *)
(* exact values do (the differences that arise are far above the rounding  *)
(* error).  Two computed floats whose exact values coincide, such as       *)
(* origx + 4 * w and endx, may compare either way, as the rounding of the  *)
(* accumulated sums falls: calculate_polygons(-14, -14, 14, 14, 7) returns *)
(* 23 polygons and calculate_polygons(-2, -2, 2, 2, 1) returns 20.  The    *)
(* variable rounded_less holds how such a comparison comes out in the run. *)
(* Equalities of coordinates and lengths are those of the exact values.    *)
(***************************************************************************)
EXTENDS Integers, Sequences, FiniteSets

\* ---------------------------------------------------------------- bounds
MaxRadius == 2
MaxExtent == 3
MaxShrink == 2
MaxSpin == 3
MaxTransmitter == 2

\* ------------------------------------------------- exact number arithmetic
Num(k) == [n |-> k, t |-> 0]
Add(x, y) == [n |-> x.n + y.n, t |-> x.t + y.t]
Sub(x, y) == [n |-> x.n - y.n, t |-> x.t - y.t]
Scale(k, x) == [n |-> k * x.n, t |-> k * x.t]
\* x * 0.5 (exact on the even values it is applied to)
Half(x) == [n |-> x.n \div 2, t |-> x.t \div 2]
\* x * math.tan(math.pi / 6), applied to whole numbers
TimesTan(x) == [n |-> x.t \div 3, t |-> x.n]
\* x * math.cos(math.radians(30)):  (n + t/sqrt3) * sqrt3/2 = t/2 + (3n/2)/sqrt3
TimesCos(x) == [n |-> x.t \div 2, t |-> (3 * x.n) \div 2]
\* 3 * x * y:  tan(pi/6)^2 = 1/3
Mul3(x, y) == [n |-> 3 * x.n * y.n + x.t * y.t, t |-> 3 * (x.n * y.t + x.t * y.n)]
\* n + t/sqrt3 > 0
Pos(x) ==
    \/ x.n >= 0 /\ x.t >= 0 /\ (x.n > 0 \/ x.t > 0)
    \/ x.n > 0 /\ x.t < 0 /\ 3 * x.n * x.n > x.t * x.t
    \/ x.n < 0 /\ x.t > 0 /\ x.t * x.t > 3 * x.n * x.n
Less(x, y) == Pos(Sub(y, x))
Leq(x, y) == ~Less(y, x)

Pt(px, py) == [x |-> px, y |-> py]
\* 3 * (squared Euclidean distance)
Dist2(u, v) == Add(Mul3(Sub(u.x, v.x), Sub(u.x, v.x)), Mul3(Sub(u.y, v.y), Sub(u.y, v.y)))

VARIABLES
    rect,       \* the rectangle as the caller passed it: minx, miny, maxx, maxy
    radius,     \* argument radius
    caller,     \* "calculate_polygons" (called directly) or "generate_cell_areas"
    pc,
    startx, starty, endx, endy, origx, row, polygons,   \* calculate_polygons locals
    hexagons,                   \* generate_cell_areas: list of cells
    geom_shape,                 \* the transmitter point, <<>> until known
    nearest_calls,              \* number of idx.nearest queries made
    cell_area, interfering_cell_areas,
    error,
    rounded_less                \* float rounding: x < y holds for x, y exactly equal

vars == <<rect, radius, caller, pc, startx, starty, endx, endy, origx, row, polygons,
          hexagons, geom_shape, nearest_calls, cell_area, interfering_cell_areas, error,
          rounded_less>>

\* the float comparison x < y of the loop tests.  With radius = 0 every step is
\* 0.0 and the operands are exact.
FloatLess(x, y) == Less(x, y) \/ (x = y /\ radius # 0 /\ rounded_less)

\* ------------------------------------------------ calculate_polygons locals
\* sl = (2 * radius) * math.tan(math.pi / 6)
sl == TimesTan(Scale(2, Num(radius)))
\* mutant: the half side is taken for the whole side
pWholeSide == sl
\* p = sl * 0.5
p == Half(sl)
\* b = sl * math.cos(math.radians(30))
b == TimesCos(sl)
w == Scale(2, b)
h == Scale(2, sl)
\* mutant: the staggered rows are moved by a whole hexagon width
xoffsetFullWidth == w
xoffset == b
\* mutant: rows advance by the full hexagon height
yoffsetFullHeight == h
yoffset == Scale(3, p)

\* mutant: the top corner is placed at 3 * p, level with its neighbours
HexagonFlatTop(sx, sy) ==
    << Pt(sx, Add(sy, p)),
       Pt(sx, Add(sy, Scale(3, p))),
       Pt(Add(sx, b), Add(sy, Scale(3, p))),
       Pt(Add(sx, w), Add(sy, Scale(3, p))),
       Pt(Add(sx, w), Add(sy, p)),
       Pt(Add(sx, b), sy),
       Pt(sx, Add(sy, p)) >>

\* the 7-point ring built in the inner loop from the anchor (sx, sy)
Hexagon(sx, sy) ==
    << Pt(sx, Add(sy, p)),
       Pt(sx, Add(sy, Scale(3, p))),
       Pt(Add(sx, b), Add(sy, h)),
       Pt(Add(sx, w), Add(sy, Scale(3, p))),
       Pt(Add(sx, w), Add(sy, p)),
       Pt(Add(sx, b), sy),
       Pt(sx, Add(sy, p)) >>

\* shapely's Polygon(poly).centroid.  The rings built by Hexagon are centrally
\* symmetric, so the area centroid is the midpoint of two opposite corners.
PolygonCentroid(poly) ==
    Pt(Half(Add(poly[1].x, poly[4].x)), Half(Add(poly[1].y, poly[4].y)))

\* mutant: the point is buffered by cell_radius, not by twice it
BufferBoundsRadius(pt, r) ==
    [minx |-> pt[1] - r, miny |-> pt[2] - r, maxx |-> pt[1] + r, maxy |-> pt[2] + r]

\* bounds of Polygon(geom_shape.buffer(cell_radius*2).exterior): the circle
\* approximation has its extreme vertices on the axes
BufferBounds(pt, r) ==
    [minx |-> pt[1] - 2 * r, miny |-> pt[2] - 2 * r,
     maxx |-> pt[1] + 2 * r, maxy |-> pt[2] + 2 * r]

\* ------------------------------------------------------------------- inputs
Origins == {<<0, 0>>, <<1, -1>>}
Extents == (0 - MaxShrink) .. MaxExtent
Radii == -1 .. MaxRadius
TransmitterPoints == {<<i, j>> : i \in 0 .. MaxTransmitter, j \in 0 .. MaxTransmitter}
PipelinePoints == {<<0, 0>>, <<1, 2>>}

InitLocals ==
    /\ pc = "calculate_polygons"
    /\ startx = Num(rect.minx) /\ starty = Num(rect.miny)
    /\ endx = Num(rect.maxx) /\ endy = Num(rect.maxy)
    /\ origx = Num(0) /\ row = 0 /\ polygons = <<>>
    /\ hexagons = <<>> /\ nearest_calls = 0
    /\ cell_area = <<>> /\ interfering_cell_areas = <<>>
    /\ error = "none"
    /\ rounded_less \in BOOLEAN

\* calculate_polygons called with any rectangle and radius
InitDirect ==
    /\ caller = "calculate_polygons"
    /\ radius \in Radii
    /\ \E o \in Origins, dx \in Extents, dy \in Extents :
          rect = [minx |-> o[1], miny |-> o[2], maxx |-> o[1] + dx, maxy |-> o[2] + dy]
    /\ geom_shape = <<>>
    /\ InitLocals

\* generate_cell_areas(point, cell_radius): the rectangle is the buffer's bounds
InitPipeline ==
    /\ caller = "generate_cell_areas"
    /\ radius \in 1 .. MaxRadius
    /\ \E pt \in PipelinePoints :
          /\ geom_shape = << Pt(Num(pt[1]), Num(pt[2])) >>
          /\ rect = BufferBounds(pt, radius)
    /\ InitLocals

Init == InitDirect \/ InitPipeline

\* --------------------------------------------------------- calculate_polygons
\* mutant: the rectangle is not expanded (lines 114-117 left out)
SetupUnexpanded ==
    /\ pc = "calculate_polygons"
    /\ origx' = startx
    /\ row' = 1
    /\ polygons' = <<>>
    /\ pc' = "rows"
    /\ UNCHANGED <<rounded_less, rect, radius, caller, startx, starty, endx, endy, hexagons,
                   geom_shape, nearest_calls, cell_area, interfering_cell_areas, error>>

\* lines 98-128: constants, expansion of the rectangle, loop variables
Setup ==
    /\ pc = "calculate_polygons"
    /\ startx' = Sub(startx, w)
    /\ starty' = Sub(starty, h)
    /\ endx' = Add(endx, w)
    /\ endy' = Add(endy, h)
    /\ origx' = Sub(startx, w)
    /\ row' = 1
    /\ polygons' = <<>>
    /\ pc' = "rows"
    /\ UNCHANGED <<rounded_less, rect, radius, caller, hexagons, geom_shape, nearest_calls,
                   cell_area, interfering_cell_areas, error>>

\* lines 130-136: the outer loop's test holds; place the row's first anchor.
\* For radius <= 0 the loop never ends; the model follows it MaxSpin rows.
NextRow ==
    /\ pc = "rows"
    /\ FloatLess(starty, endy)
    /\ radius > 0 \/ row <= MaxSpin
    /\ startx' = IF row % 2 = 0 THEN Add(origx, xoffset) ELSE origx
    /\ pc' = "cols"
    /\ UNCHANGED <<rounded_less, rect, radius, caller, starty, endx, endy, origx, row, polygons,
                   hexagons, geom_shape, nearest_calls, cell_area,
                   interfering_cell_areas, error>>

\* lines 138-163: one hexagon of the row.
\* For radius <= 0 the loop never ends; the model follows it MaxSpin hexagons.
AppendHexagon ==
    /\ pc = "cols"
    /\ FloatLess(startx, endx)
    /\ radius > 0 \/ Len(polygons) < MaxSpin
    /\ polygons' = Append(polygons, Hexagon(startx, starty))
    /\ startx' = Add(startx, w)
    /\ UNCHANGED <<rounded_less, rect, radius, caller, pc, starty, endx, endy, origx, row,
                   hexagons, geom_shape, nearest_calls, cell_area,
                   interfering_cell_areas, error>>

\* lines 138, 165-166: the inner loop's test fails; move up one row
EndRow ==
    /\ pc = "cols"
    /\ ~FloatLess(startx, endx)
    /\ starty' = Add(starty, yoffset)
    /\ row' = row + 1
    /\ pc' = "rows"
    /\ UNCHANGED <<rounded_less, rect, radius, caller, startx, endx, endy, origx, polygons,
                   hexagons, geom_shape, nearest_calls, cell_area,
                   interfering_cell_areas, error>>

\* lines 130, 168: the outer loop's test fails; return polygons
Return ==
    /\ pc = "rows"
    /\ ~FloatLess(starty, endy)
    /\ pc' = "returned"
    /\ UNCHANGED <<rounded_less, rect, radius, caller, startx, starty, endx, endy, origx, row,
                   polygons, hexagons, geom_shape, nearest_calls, cell_area,
                   interfering_cell_areas, error>>

\* --------------------------------------------------------- generate_cell_areas
\* lines 306-321: one cell per polygon, site_id counted from 0
\* mutant: id_num is never advanced (line 321 left out)
CellSameId(poly, id_num) ==
    [geometry |-> poly, centroid |-> PolygonCentroid(poly), site_id |-> 0]

Cell(poly, id_num) ==
    [geometry |-> poly, centroid |-> PolygonCentroid(poly), site_id |-> id_num]

BuildHexagons ==
    /\ pc = "returned"
    /\ hexagons' = [i \in 1 .. Len(polygons) |-> Cell(polygons[i], i - 1)]
    /\ pc' = "find_closest_cell_areas"
    /\ UNCHANGED <<rounded_less, rect, radius, caller, startx, starty, endx, endy, origx, row,
                   polygons, geom_shape, nearest_calls, cell_area,
                   interfering_cell_areas, error>>

\* ----------------------------------------------------- find_closest_cell_areas
\* rtree: idx.insert(0, coords.bounds, site) stores each cell under its centroid;
\* idx.nearest(q, k, objects='raw') yields the stored cells by ascending distance
\* to q, the cells tied with the k-th included.  The order among cells at equal
\* distance is the index's own and is not fixed by insertion order or site_id.
Cells == 1 .. Len(hexagons)
\* 3 * (squared distance) from q to every stored centroid
RECURSIVE DistancesUpTo(_, _)
DistancesUpTo(q, n) ==
    IF n = 0 THEN <<>>
    ELSE Append(DistancesUpTo(q, n - 1), Dist2(q, hexagons[n].centroid))
Distances(q) == DistancesUpTo(q, Len(hexagons))

\* the members of `among` with the least distance in d
Least(d, among) == {i \in among : \A j \in among : ~Less(d[j], d[i])}

\* mutant: the query does not order by distance
NearestFirstUnordered(q, among) == among

\* the cells that can come first in idx.nearest(q, ...)
NearestFirst(q, among) == Least(Distances(q), among)

\* the sets of m members of `among` that can be the m nearest by d: the cells
\* nearer than the m-th distance, and enough of the cells tied at it
LeastSets(d, among, m) ==
    LET must == {i \in among : Cardinality({j \in among : ~Less(d[i], d[j])}) <= m}
        may == {i \in among : Cardinality({j \in among : Less(d[j], d[i])}) < m}
    IN  {must \cup tied : tied \in {u \in SUBSET (may \ must) :
                                        Cardinality(u) = m - Cardinality(must)}}

\* mutant: the slice starts at the first result (all_closest_sites[0:6])
NearestRestFromFirst(q, first, k) ==
    LeastSets(Distances(q), Cells, IF Cardinality(Cells) < k THEN Cardinality(Cells) ELSE k)

\* the sets of cells that can fill the k places after `first` in idx.nearest(q, ...)
NearestRest(q, first, k) ==
    LeastSets(Distances(q), Cells \ {first},
              IF Cardinality(Cells) - 1 < k THEN Cardinality(Cells) - 1 ELSE k)

\* a set of cells as a list by ascending distance (equal distances: list order)
Sorted(d, set) ==
    LET before(i, j) == Less(d[i], d[j]) \/ (~Less(d[j], d[i]) /\ i < j)
        place(i) == 1 + Cardinality({j \in set : before(j, i)})
    IN  [k \in 1 .. Cardinality(set) |-> hexagons[CHOOSE i \in set : place(i) = k]]
ByDistance(q, set) == Sorted(Distances(q), set)

\* lines 194-209 on an empty list: the index is built, the first query returns
\* nothing and list(...)[0] raises IndexError
FindClosestEmpty ==
    /\ pc = "find_closest_cell_areas"
    /\ hexagons = <<>>
    /\ \E g \in TransmitterPoints :
          geom_shape' = IF caller = "generate_cell_areas" THEN geom_shape
                        ELSE << Pt(Num(g[1]), Num(g[2])) >>
    /\ nearest_calls' = 1
    /\ error' = "IndexError"
    /\ pc' = "raised"
    /\ UNCHANGED <<rounded_less, rect, radius, caller, startx, starty, endx, endy, origx, row,
                   polygons, hexagons, cell_area, interfering_cell_areas>>

\* lines 194-226
FindClosestCellAreas ==
    /\ pc = "find_closest_cell_areas"
    /\ hexagons # <<>>
    /\ \E g \in TransmitterPoints :
          LET transmitter == IF caller = "generate_cell_areas" THEN geom_shape[1]
                             ELSE Pt(Num(g[1]), Num(g[2]))
          IN
          /\ geom_shape' = <<transmitter>>
          /\ \E nearest \in NearestFirst(transmitter, Cells) :
                LET closest_cell_area_centroid ==
                        PolygonCentroid(hexagons[nearest].geometry)
                IN  \E first \in NearestFirst(closest_cell_area_centroid, Cells) :
                    \E rest \in NearestRest(closest_cell_area_centroid, first, 6) :
                       /\ cell_area' = << hexagons[first] >>
                       /\ interfering_cell_areas' =
                              ByDistance(closest_cell_area_centroid, rest)
    /\ nearest_calls' = 2
    /\ pc' = "done"
    /\ UNCHANGED <<rounded_less, rect, radius, caller, startx, starty, endx, endy, origx, row,
                   polygons, hexagons, error>>

Next ==
    \/ Setup \/ NextRow \/ AppendHexagon \/ EndRow \/ Return
    \/ BuildHexagons \/ FindClosestEmpty \/ FindClosestCellAreas

Spec == Init /\ [][Next]_vars

\* ===================================================================== claims
ValidRectangle == rect.minx < rect.maxx /\ rect.miny < rect.maxy
InvalidConfiguration == radius <= 0 \/ ~ValidRectangle

\* 3 * cross product of (v - u) and (pt - u)
Cross3(u, v, pt) ==
    Sub(Mul3(Sub(v.x, u.x), Sub(pt.y, u.y)), Mul3(Sub(v.y, u.y), Sub(pt.x, u.x)))
\* pt lies in the closed convex ring poly: on one side of all six edges
Covers(poly, pt) ==
    \/ \A i \in 1 .. 6 : ~Pos(Cross3(poly[i], poly[i + 1], pt))
    \/ \A i \in 1 .. 6 : ~Pos(Scale(-1, Cross3(poly[i], poly[i + 1], pt)))
Covered(pt) == \E i \in 1 .. Len(polygons) : Covers(polygons[i], pt)

\* sample coordinates i + k * tan(pi/6) in the closed interval [lo, hi]
Samples(ilo, ihi, ks, lo, hi) ==
    {c \in {[n |-> i, t |-> k] : i \in ilo .. ihi, k \in ks} : Leq(lo, c) /\ Leq(c, hi)}

\* sample points strictly inside the rectangle the caller passed
InteriorSamples ==
    {Pt(cx, cy) :
        cx \in {c \in Samples(rect.minx, rect.maxx, -1 .. 1, Num(rect.minx), Num(rect.maxx)) :
                    Less(Num(rect.minx), c) /\ Less(c, Num(rect.maxx))},
        cy \in {c \in Samples(rect.miny, rect.maxy, -1 .. 1, Num(rect.miny), Num(rect.maxy)) :
                    Less(Num(rect.miny), c) /\ Less(c, Num(rect.maxy))}}

\* C1: with radius > 0 and a valid rectangle, every point strictly inside the
\* rectangle passed to calculate_polygons lies in at least one returned hexagon.
C1_Coverage ==
    (pc = "returned" /\ radius > 0 /\ ValidRectangle)
        => \A pt \in InteriorSamples : Covered(pt)

\* a valid call has returned, and one of the interior points lies in a hexagon of
\* a staggered (even) row only
C1_Witness ==
    /\ pc = "returned" /\ radius > 0 /\ ValidRectangle
    /\ \E pt \in InteriorSamples :
          /\ Covered(pt)
          /\ \A i \in 1 .. Len(polygons) :
                Covers(polygons[i], pt) => polygons[i][1].x # polygons[1][1].x
                                           /\ polygons[i][6].y # polygons[1][6].y

\* sample points of the closed rectangle [xlo, xhi] x [ylo, yhi] around the
\* expanded region; the y samples step by p = radius * tan(pi/6)
RegionSamples(xlo, xhi, ylo, yhi) ==
    {Pt(cx, cy) :
        cx \in Samples(rect.minx - 2 * radius, rect.maxx + 2 * radius, -1 .. 1, xlo, xhi),
        cy \in Samples(rect.miny, rect.maxy, {k * radius : k \in -4 .. 4}, ylo, yhi)}

\* C9 as stated: every point of the expanded rectangle
\* [minX - w, maxX + w] x [minY - h, maxY + h] lies in a returned hexagon.
C9_ExpandedRegionTiled ==
    (pc = "returned" /\ radius > 0 /\ ValidRectangle)
        => \A pt \in RegionSamples(Sub(Num(rect.minx), w), Add(Num(rect.maxx), w),
                                   Sub(Num(rect.miny), h), Add(Num(rect.maxy), h)) :
              Covered(pt)

\* C9 amended: every point of [minX - b, maxX + w] x [minY - h + p, maxY + h]
\* lies in a returned hexagon (the expanded rectangle without the strip of width
\* b on its left, where the staggered rows begin, and without the strip of height
\* p at its bottom, between the lower tips of the first row).
C9_ExpandedRegionTiledInside ==
    (pc = "returned" /\ radius > 0 /\ ValidRectangle)
        => \A pt \in RegionSamples(Sub(Num(rect.minx), b), Add(Num(rect.maxx), w),
                                   Add(Sub(Num(rect.miny), h), p), Add(Num(rect.maxy), h)) :
              Covered(pt)

\* a valid call has returned and the lower left corner of the amended region, a
\* point outside the rectangle the caller passed, is a sample
C9_Witness ==
    /\ pc = "returned" /\ radius > 0 /\ ValidRectangle
    /\ Pt(Sub(Num(rect.minx), b), Add(Sub(Num(rect.miny), h), p))
          \in RegionSamples(Sub(Num(rect.minx), b), Add(Num(rect.maxx), w),
                            Add(Sub(Num(rect.miny), h), p), Add(Num(rect.maxy), h))
    /\ Covered(Pt(Add(Num(rect.maxx), w), Add(Num(rect.maxy), h)))

\* the six corners of a ring
Corners(poly) == {poly[i] : i \in 1 .. 6}
\* 3 * (2 * radius * tan(pi/6))^2
SideLength2 == Mul3(TimesTan(Num(2 * radius)), TimesTan(Num(2 * radius)))

\* C6 as stated: the distance from a hexagon's centre to each of its 6 corners
\* equals radius.
C6_RadiusIsCentreToCorner ==
    radius > 0 =>
        \A i \in 1 .. Len(polygons) : \A v \in Corners(polygons[i]) :
            Dist2(PolygonCentroid(polygons[i]), v) = Mul3(Num(radius), Num(radius))

\* C6 amended: the distance from a hexagon's centre to each of its 6 corners
\* equals the side length 2 * radius * tan(pi/6); radius is the distance from the
\* centre to the midpoint of each of the 6 edges.
C6_RadiusIsCentreToEdge ==
    radius > 0 =>
        \A i \in 1 .. Len(polygons) :
            LET c == PolygonCentroid(polygons[i])
            IN  /\ \A v \in Corners(polygons[i]) : Dist2(c, v) = SideLength2
                /\ \A k \in 1 .. 6 :
                      \* twice the centre against the sum of the edge's two ends
                      Dist2(Pt(Scale(2, c.x), Scale(2, c.y)),
                            Pt(Add(polygons[i][k].x, polygons[i][k + 1].x),
                               Add(polygons[i][k].y, polygons[i][k + 1].y)))
                         = Scale(4, Mul3(Num(radius), Num(radius)))

\* hexagons of both kinds of row have been generated with a positive radius
C6_Witness ==
    /\ radius > 0 /\ ValidRectangle /\ pc = "returned"
    /\ \E i, j \in 1 .. Len(polygons) : polygons[i][1].x # polygons[j][1].x

C8_SiteIdOrder ==
    radius > 0 =>
        \A i, j \in 1 .. Len(hexagons) :
            i < j =>
                /\ hexagons[i].site_id < hexagons[j].site_id
                /\ \/ Less(hexagons[i].centroid.y, hexagons[j].centroid.y)
                   \/ /\ hexagons[i].centroid.y = hexagons[j].centroid.y
                      /\ Less(hexagons[i].centroid.x, hexagons[j].centroid.x)

\* cells of several rows and several columns carry their site_id
C8_Witness ==
    /\ radius > 0 /\ pc = "find_closest_cell_areas"
    /\ \E i, j, k \in 1 .. Len(hexagons) :
          /\ hexagons[i].centroid.y = hexagons[j].centroid.y
          /\ hexagons[i].site_id < hexagons[j].site_id
          /\ Less(hexagons[j].centroid.y, hexagons[k].centroid.y)
          /\ hexagons[j].site_id < hexagons[k].site_id

\* 3 * (squared distance) from the transmitter to a cell's centroid
ToTransmitter(c) == Dist2(geom_shape[1], c.centroid)
AllCells == {hexagons[i] : i \in 1 .. Len(hexagons)}

C3_InterfererCount ==
    /\ pc = "done" =>
          /\ Len(cell_area) = 1
          /\ Len(interfering_cell_areas) =
                 (IF Len(hexagons) - 1 < 6 THEN Len(hexagons) - 1 ELSE 6)
          /\ \A k \in 1 .. Len(interfering_cell_areas) :
                 interfering_cell_areas[k] # cell_area[1]
    /\ Len(hexagons) >= 1 => (pc # "raised" /\ error = "none")

\* a tessellation of 4 cells gave 1 serving cell and 3 interferers
C3_Witness ==
    /\ pc = "done"
    /\ Len(hexagons) = 4
    /\ Len(cell_area) = 1
    /\ Len(interfering_cell_areas) = 3

\* C4 as stated: a call with radius <= 0 or a malformed rectangle ends in a
\* ConfigurationError, before any hexagon is generated and without entering the
\* row or column loop.
C4_InvalidConfigurationRejected ==
    InvalidConfiguration =>
        /\ polygons = <<>>
        /\ pc \in {"calculate_polygons", "rows", "raised"}
        /\ pc = "raised" => error = "ConfigurationError"

\* C5 as stated: on an empty list of cells the selection fails with
\* EmptyTessellationError and no nearest-neighbour query is made.
C5_EmptyTessellationError ==
    (hexagons = <<>> /\ pc \in {"raised", "done"}) =>
        /\ error = "EmptyTessellationError"
        /\ nearest_calls = 0

\* two rings share an edge: exactly two common corners
SharesEdge(poly1, poly2) == Cardinality(Corners(poly1) \cap Corners(poly2)) = 2

\* the selection part of C10: six interferers, each sharing an edge with the
\* serving cell and each at the centroid distance 2 * radius from it
FullRing ==
    /\ Len(interfering_cell_areas) = 6
    /\ \A k \in 1 .. Len(interfering_cell_areas) :
          /\ SharesEdge(cell_area[1].geometry, interfering_cell_areas[k].geometry)
          /\ Dist2(cell_area[1].centroid, interfering_cell_areas[k].centroid)
                = Mul3(Num(2 * radius), Num(2 * radius))

\* C10 as stated: through generate_cell_areas the tessellation has the same
\* number of cells for every radius (the 5 rows of 4 hexagons that the exact
\* values give), at least 7, and the selection returns six interferers, each
\* sharing an edge with the serving cell and at the same centroid distance from
\* it; no error is raised.
C10_PipelineSameCount ==
    caller = "generate_cell_areas" =>
        /\ pc \in {"find_closest_cell_areas", "done"} => Len(hexagons) = 20
        /\ pc # "raised"
        /\ pc = "done" => FullRing

\* C10 amended: through generate_cell_areas the tessellation has 20 cells, or 23
\* when the rounding of startx gives the three odd rows a fifth hexagon, so at
\* least 7 in every case, and the selection returns six interferers, each sharing
\* an edge with the serving cell and at the same centroid distance from it; no
\* error is raised.
C10_PipelineFullRing ==
    caller = "generate_cell_areas" =>
        /\ pc \in {"find_closest_cell_areas", "done"} => Len(hexagons) \in {20, 23}
        /\ pc # "raised"
        /\ pc = "done" => FullRing

\* the pipeline has selected, for the largest radius and a tessellation of 20
\* cells, a serving cell and its ring
C10_Witness ==
    /\ caller = "generate_cell_areas" /\ pc = "done"
    /\ radius = MaxRadius
    /\ Len(hexagons) = 20
    /\ Len(cell_area) = 1
    /\ Len(interfering_cell_areas) = 6
====
